---- MODULE Spec2Model ----
(***************************************************************************)
(* gattcat (examples/gattcat.rs): the connect, listen, serve and discover  *)
(* commands of the GATT relay.                                             *)
(*                                                                         *)
(* The model follows ConnectOpts::perform from its set-up through the      *)
(* discovery loop (select! over the adapter's discovery events and the     *)
(* 15 s timer), ConnectOpts::find_characteristic with its connect retries, *)
(* the negotiation of the notify / write streams, the terminal set-up and  *)
(* io_loop, the client relay, down to main's exit code.                    *)
(*                                                                         *)
(* Two families of specifications share the relay's actions:               *)
(*   Spec        the whole connect command (io_loop gets the arguments     *)
(*               ConnectOpts::perform passes);                             *)
(*   SpecIoLoop  io_loop alone, entered with every combination of its      *)
(*               arguments (FairSpecIoLoop adds weak fairness of a turn).  *)
(* The server side and the discovery sweep have their own:                 *)
(*   SpecServeLoop  io_loop_serve alone, with every combination of its     *)
(*                  arguments (those of the listen command among them);    *)
(*   SpecServe      the serve command: ServeOpts::perform with its adapter *)
(*                  watcher, the sessions, the child and main's exit;      *)
(*   SpecDiscover   the loop of DiscoverOpts::perform.                     *)
(*                                                                         *)
(* One relay turn (loop test, buffer sizing, select!, the handler of the   *)
(* arm that won) is one action: the task is single-threaded and the        *)
(* handler runs to its end before the loop test is made again.             *)
(***************************************************************************)
EXTENDS Integers, Sequences, FiniteSets, TLC

\* ------------------------------------------------------------------ bounds

\* Bytes the remote peer has to send, bytes available on local input.
RemoteLen == 3
LocalLen == 3
\* Largest MTU an endpoint advertises in the model (every MTU in 1..MaxMtu).
MaxMtu == 2
\* Device-added events for the target address the adapter delivers (each one
\* starts an attempt); events for other devices are not bounded.
MaxAttempts == 2
\* Control events (WriteRequest, NotifySubscribe) one Control Channel yields
\* before it closes.
MaxControl == 2
\* Sessions the serve command opens (first control events it accepts); after
\* that many the Control Channel only closes.
MaxSessions == 2
\* Device addresses in range of the discovery sweep (1..NAddr).
NAddr == 2
\* The sweep's timeout, in ticks of the clock.
TimeoutTicks == 2
\* Ticks of the clock a sweep is followed for.
MaxTicks == 4
\* Bytes the peer sends to the server in one session, and bytes the child
\* writes to its standard output in one session.
SessionLen == 2

\* ------------------------------------------------------ program constants

\* io_loop: the buffer size when neither endpoint is present.
FallbackMtu == 100

\* -------------------------------------------------------------- variables

VARIABLES
    pc,            \* where the command is
    result,        \* what perform returned (or will return)
    exitCode,      \* main's exit code, -1 while running
    deadline,      \* the 15 s timer of perform: "unarmed" | "armed" | "expired"
    discoOpen,     \* the discovery stream has not ended
    devConnected,  \* the target device is connected
    devRecord,     \* the adapter holds a record of the target device
    retries,       \* find_characteristic: retries left
    connectCalls,  \* find_characteristic: connect calls of this attempt
    lastConnect,   \* find_characteristic: outcome of the last connect call
    fcResult,      \* what find_characteristic returned, until perform has matched it
    attempts,      \* find_characteristic calls so far
    gaveUp,        \* some find_characteristic call ended with the connect error
    in_raw,        \* the terminal was switched to raw mode
    ioEntered,     \* io_loop was called
    rh, wh,        \* io_loop: remote reader / writer slot
    pin, pout,     \* io_loop: local input / output slot
    rhMtu, whMtu,  \* the MTU of each remote endpoint (0: no endpoint)
    is_std, rh_required, pin_required,   \* io_loop's flags
    rdLog,         \* results of the remote reads: chunks, <<>> for Ok(0) | Err
    outLog,        \* bytes local output received, in order
    pinLog,        \* results of the local reads: chunks, <<>> for Ok(0) | Err
    whLog,         \* buffers handed to the remote writer's write_all, in order
    outFailed,     \* a write or flush on local output failed
    stdoutClosed,  \* libc::close(STDOUT_FILENO) was called
    stdinClosed,   \* libc::close(STDIN_FILENO) was called
    fwdAtRhEof,    \* bytes handed to the remote writer when the remote read failed
    outAtPinEof,   \* bytes on local output when the local read failed
    \* io_loop_serve and the serve command
    rh_closed,     \* io_loop_serve: rh_closed
    wh_closed,     \* io_loop_serve: wh_closed
    ctlOpen,       \* the control channel has not yielded None
    ctlEvents,     \* control events taken from the Control Channel in use
    ioResult,      \* what io_loop_serve returned: "none" | "ok" | "err_accept"
    lastTurn,      \* io_loop_serve: the arm handled in the last turn
    one_shot,      \* serve: --one-shot
    pty,           \* serve: --pty
    sessions,      \* serve: first control events accepted
    spawned,       \* serve: children spawned (each one raced against a relay)
    lastEnd,       \* serve: how the last session ended
    childOut,      \* bytes the child has written to its standard output
    watching,      \* serve: the adapter watcher task runs
    firstEvent,    \* serve: the control event that opened the session
    watched,       \* serve: the last session event the watcher took
    \* the discovery sweep
    addresses,     \* discover: the filter addresses not handled yet
    done,          \* discover: the addresses handled
    filter,        \* discover: a filter was given
    public_only,   \* discover: --public-only
    changes,       \* discover: addresses whose device events are watched
    timeLeft,      \* discover: ticks until the timeout future completes
    idle,          \* ticks since the last qualifying event (or the start)
    elapsed,       \* ticks since the sweep began
    handled,       \* how many times handle_device ran, per address
    lastEvent      \* discover: what the last turn of the loop did

discoVars == <<deadline, discoOpen, devConnected, devRecord, retries,
               connectCalls, lastConnect, fcResult, attempts, gaveUp>>
setupVars == <<in_raw, ioEntered>>
slotVars == <<rh, wh, pin, pout>>
argVars == <<rhMtu, whMtu, is_std, rh_required, pin_required>>
logVars == <<rdLog, outLog, pinLog, whLog, outFailed, stdoutClosed, stdinClosed,
             fwdAtRhEof, outAtPinEof>>
closedVars == <<rh_closed, wh_closed>>
ctlVars == <<ctlOpen, ctlEvents, ioResult, lastTurn>>
cmdVars == <<one_shot, pty, sessions, spawned, lastEnd, childOut, watching,
             firstEvent, watched>>
serveVars == <<closedVars, ctlVars, cmdVars>>
sweepVars == <<addresses, done, filter, public_only, changes, timeLeft, idle,
               elapsed, handled, lastEvent>>
extVars == <<serveVars, sweepVars>>
vars == <<pc, result, exitCode, discoVars, setupVars, slotVars, argVars, logVars,
          extVars>>

\* ---------------------------------------------------------------- helpers

Min(a, b) == IF a < b THEN a ELSE b

RECURSIVE Flatten(_)
Flatten(s) == IF s = <<>> THEN <<>> ELSE Head(s) \o Flatten(Tail(s))

\* The bytes the peer sends and the bytes local input holds: all different,
\* so that a lost, repeated or displaced byte shows.
RemoteStream == [i \in 1..RemoteLen |-> i]
LocalStream == [i \in 1..LocalLen |-> 10 + i]

\* Bytes consumed from each source so far.
RemotePos == Len(Flatten(rdLog))
LocalPos == Len(Flatten(pinLog))

\* A read has failed (Ok(0) or Err) on that side.
RhEof == \E i \in 1..Len(rdLog) : rdLog[i] = <<>>
PinEof == \E i \in 1..Len(pinLog) : pinLog[i] = <<>>

IsSome(slot) == slot = "Some"
IsNone(slot) == slot = "None"

\* ------------------------------------------------------- io_loop (relay)

\* while rh.is_some() || pin.is_some()
LoopCondition == IsSome(rh) \/ IsSome(pin)

\* Mutant of StopEarly: the loop stops as soon as the remote reader is gone,
\* whatever rh_required says.
StopEarlyWithoutReader == IsNone(rh) \/ (pin_required /\ IsNone(pin))

\* if rh_required && rh.is_none() { break; }  if pin_required && pin.is_none() { break; }
StopEarly == (rh_required /\ IsNone(rh)) \/ (pin_required /\ IsNone(pin))

\* The loop body is entered for another turn.
LoopContinues == LoopCondition /\ ~StopEarly

\* let mtu = match (&rh, &wh) { (Some(rh), _) => rh.mtu(), (_, Some(wh)) => wh.mtu(), _ => 100 }
Mtu == IF IsSome(rh) THEN rhMtu ELSE IF IsSome(wh) THEN whMtu ELSE FallbackMtu

\* rh.read_buf(&mut recv_buf) with recv_buf = BytesMut::with_capacity(mtu):
\* the sizes one read with data can have.
RemoteReadSizes == 1..Min(Mtu, RemoteLen - RemotePos)

\* pin.read_buf(&mut pin_buf) with pin_buf = BytesMut::with_capacity(mtu).
LocalReadSizes == 1..Min(Mtu, LocalLen - LocalPos)

\* The chunk a read of n bytes takes from a stream already consumed up to pos.
Chunk(stream, pos, n) == SubSeq(stream, pos + 1, pos + n)

\* Mutant of WriteOut: the flush is left out and the last byte written stays
\* in the buffer.
WriteOutUnflushed(log, buf, delivered) == log \o SubSeq(buf, 1, delivered - 1)

\* pout.write_all(&recv_buf) followed by pout.flush(): what local output holds
\* afterwards when delivered bytes of the buffer got through.
WriteOut(log, buf, delivered) == log \o SubSeq(buf, 1, delivered)

\* wh.write_all(&pin_buf): the buffer handed to the remote writer.
WriteRemote(log, buf) == Append(log, buf)

\* Remote arm, Ok(0) | Err(_): rh = None; pout = None; close(STDOUT_FILENO) if is_std.
RemoteReadFail ==
    /\ pc = "loop"
    /\ LoopContinues
    /\ IsSome(rh)
    /\ rh' = "None"
    /\ pout' = "None"
    /\ stdoutClosed' = (stdoutClosed \/ is_std)
    /\ rdLog' = Append(rdLog, <<>>)
    /\ fwdAtRhEof' = Len(Flatten(whLog))
    /\ UNCHANGED <<extVars, pc, result, exitCode, discoVars, setupVars, wh, pin, argVars,
                   outLog, pinLog, whLog, outFailed, stdinClosed, outAtPinEof>>

\* Mutant of RemoteReadData: a failed forward is handled like a failed read,
\* local output being dropped together with the remote reader.
RemoteReadDataDropsOutput ==
    /\ pc = "loop"
    /\ LoopContinues
    /\ IsSome(rh)
    /\ \E n \in RemoteReadSizes :
         LET buf == Chunk(RemoteStream, RemotePos, n) IN
         /\ rdLog' = Append(rdLog, buf)
         /\ IF IsNone(pout)
            THEN /\ pc' = "panicked"
                 /\ UNCHANGED <<rh, pout, outLog, outFailed>>
            ELSE \E ok \in BOOLEAN :
                   \E delivered \in (IF ok THEN {n} ELSE 0..n) :
                     /\ outLog' = WriteOut(outLog, buf, delivered)
                     /\ rh' = IF ok THEN rh ELSE "None"
                     /\ pout' = IF ok THEN pout ELSE "None"
                     /\ outFailed' = (outFailed \/ ~ok)
                     /\ pc' = pc
    /\ UNCHANGED <<extVars, result, exitCode, discoVars, setupVars, wh, pin, argVars,
                   pinLog, whLog, stdoutClosed, stdinClosed, fwdAtRhEof, outAtPinEof>>

\* Remote arm, Ok(n): pout.as_mut().unwrap(), write_all and flush; on failure
\* rh = None.
RemoteReadData ==
    /\ pc = "loop"
    /\ LoopContinues
    /\ IsSome(rh)
    /\ \E n \in RemoteReadSizes :
         LET buf == Chunk(RemoteStream, RemotePos, n) IN
         /\ rdLog' = Append(rdLog, buf)
         /\ IF IsNone(pout)
            THEN /\ pc' = "panicked"
                 /\ UNCHANGED <<rh, outLog, outFailed>>
            ELSE \E ok \in BOOLEAN :
                   \E delivered \in (IF ok THEN {n} ELSE 0..n) :
                     /\ outLog' = WriteOut(outLog, buf, delivered)
                     /\ rh' = IF ok THEN rh ELSE "None"
                     /\ outFailed' = (outFailed \/ ~ok)
                     /\ pc' = pc
    /\ UNCHANGED <<extVars, result, exitCode, discoVars, setupVars, wh, pin, pout, argVars,
                   pinLog, whLog, stdoutClosed, stdinClosed, fwdAtRhEof, outAtPinEof>>

\* Local arm, Ok(0) | Err(_): wh = None; pin = None.
LocalReadFail ==
    /\ pc = "loop"
    /\ LoopContinues
    /\ IsSome(pin)
    /\ wh' = "None"
    /\ pin' = "None"
    /\ pinLog' = Append(pinLog, <<>>)
    /\ outAtPinEof' = Len(outLog)
    /\ UNCHANGED <<extVars, pc, result, exitCode, discoVars, setupVars, rh, pout, argVars,
                   rdLog, outLog, whLog, outFailed, stdoutClosed, stdinClosed,
                   fwdAtRhEof>>

\* Local arm, Ok(n): wh.as_mut().unwrap().write_all(&pin_buf); on failure
\* pin = None and close(STDIN_FILENO) if is_std.
LocalReadData ==
    /\ pc = "loop"
    /\ LoopContinues
    /\ IsSome(pin)
    /\ \E n \in LocalReadSizes :
         LET buf == Chunk(LocalStream, LocalPos, n) IN
         /\ pinLog' = Append(pinLog, buf)
         /\ IF IsNone(wh)
            THEN /\ pc' = "panicked"
                 /\ UNCHANGED <<pin, whLog, stdinClosed>>
            ELSE \E ok \in BOOLEAN :
                   /\ whLog' = WriteRemote(whLog, buf)
                   /\ pin' = IF ok THEN pin ELSE "None"
                   /\ stdinClosed' = (stdinClosed \/ (~ok /\ is_std))
                   /\ pc' = pc
    /\ UNCHANGED <<extVars, result, exitCode, discoVars, setupVars, rh, wh, pout, argVars,
                   rdLog, outLog, outFailed, stdoutClosed, fwdAtRhEof, outAtPinEof>>

\* The loop test fails or a required side is gone: io_loop returns Ok(()).
LoopExit ==
    /\ pc = "loop"
    /\ ~LoopContinues
    /\ pc' = "io_returned"
    /\ UNCHANGED <<extVars, result, exitCode, discoVars, setupVars, slotVars, argVars, logVars>>

\* ------------------------------------------- io_loop with every argument

\* The values the variables of the connect command hold when io_loop is
\* looked at alone.
IdleDisco ==
    /\ deadline = "armed" /\ discoOpen = TRUE
    /\ devConnected = TRUE /\ devRecord = TRUE
    /\ retries = 0 /\ connectCalls = 0 /\ lastConnect = "none"
    /\ fcResult = "none" /\ attempts = 1 /\ gaveUp = FALSE

\* The variables of the server side and of the discovery sweep, which the
\* connect command does not touch.
IdleServe ==
    /\ rh_closed = FALSE /\ wh_closed = FALSE
    /\ ctlOpen = TRUE /\ ctlEvents = 0 /\ ioResult = "none" /\ lastTurn = "none"
    /\ one_shot = FALSE /\ pty = FALSE /\ sessions = 0 /\ spawned = 0
    /\ lastEnd = "none" /\ childOut = 0 /\ watching = FALSE
    /\ firstEvent = "none" /\ watched = "none"

IdleSweep ==
    /\ addresses = {} /\ done = {} /\ filter = FALSE /\ public_only = FALSE
    /\ changes = {} /\ timeLeft = 0 /\ idle = 0 /\ elapsed = 0
    /\ handled = <<>> /\ lastEvent = "none"

FreshLogs ==
    /\ rdLog = <<>> /\ outLog = <<>> /\ pinLog = <<>> /\ whLog = <<>>
    /\ outFailed = FALSE /\ stdoutClosed = FALSE /\ stdinClosed = FALSE
    /\ fwdAtRhEof = 0 /\ outAtPinEof = 0

\* The endpoints a characteristic can yield: each present with an MTU, or not.
Endpoints == {"Some", "None"}
MtuOf(slot) == IF slot = "Some" THEN 1..MaxMtu ELSE {0}

\* io_loop(rh, wh, pin, pout, is_std, rh_required, pin_required) at its first
\* loop test: let mut pin = Some(pin); let mut pout = Some(pout).
EnterIoLoop(r, w, rm, wm, std, rreq, preq) ==
    /\ rh = r /\ wh = w /\ rhMtu = rm /\ whMtu = wm
    /\ pin = "Some" /\ pout = "Some"
    /\ is_std = std /\ rh_required = rreq /\ pin_required = preq

InitIoLoop ==
    /\ pc = "loop" /\ result = "none" /\ exitCode = -1
    /\ IdleDisco
    /\ FreshLogs
    /\ IdleServe /\ IdleSweep
    /\ in_raw = FALSE /\ ioEntered = TRUE
    /\ \E r \in Endpoints, w \in Endpoints :
         /\ ~(r = "None" /\ w = "None")
         /\ \E rm \in MtuOf(r), wm \in MtuOf(w) :
              \E std \in BOOLEAN, rreq \in BOOLEAN, preq \in BOOLEAN :
                EnterIoLoop(r, w, rm, wm, std, rreq, preq)

NextIoLoop ==
    \/ RemoteReadFail
    \/ RemoteReadData
    \/ LocalReadFail
    \/ LocalReadData
    \/ LoopExit

SpecIoLoop == InitIoLoop /\ [][NextIoLoop]_vars

\* A turn whose select! has a ready arm is eventually taken, and the loop
\* test is eventually made.
FairSpecIoLoop == SpecIoLoop /\ WF_vars(NextIoLoop)

\* ------------------------------------------------ ConnectOpts::perform

\* The relay's variables before io_loop is called.
NoRelayYet ==
    /\ rh = "None" /\ wh = "None" /\ pin = "None" /\ pout = "None"
    /\ rhMtu = 0 /\ whMtu = 0
    /\ is_std = FALSE /\ rh_required = FALSE /\ pin_required = FALSE
    /\ in_raw = FALSE /\ ioEntered = FALSE

\* The command line was parsed and perform is about to run.  The target
\* device may be known to the adapter, and connected, from an earlier run.
Init ==
    /\ pc = "start" /\ result = "none" /\ exitCode = -1
    /\ deadline = "unarmed" /\ discoOpen = TRUE
    /\ devRecord \in BOOLEAN /\ devConnected \in BOOLEAN
    /\ devConnected => devRecord
    /\ retries = 0 /\ connectCalls = 0 /\ lastConnect = "none"
    /\ fcResult = "none" /\ attempts = 0 /\ gaveUp = FALSE
    /\ NoRelayYet
    /\ FreshLogs
    /\ IdleServe /\ IdleSweep

\* get_session_adapter(self.bind).await?; adapter.discover_devices().await?;
\* let timeout = sleep(Duration::from_secs(15)).
Setup ==
    /\ pc = "start"
    /\ \E ok \in BOOLEAN :
         IF ok
         THEN /\ pc' = "select"
              /\ deadline' = "armed"
              /\ result' = result
         ELSE /\ pc' = "perform_returned"
              /\ result' = "err_setup"
              /\ deadline' = deadline
    /\ UNCHANGED <<extVars, exitCode, discoOpen, devConnected, devRecord, retries,
                   connectCalls, lastConnect, fcResult, attempts, gaveUp,
                   setupVars, slotVars, argVars, logVars>>

\* The command is in its discovery loop (in select!, or in the handler of a
\* discovery event): the timer runs.
InDiscovery == pc \in {"select", "fc_is_connected", "fc_connect", "fc_services", "fc_return"}

\* The 15 seconds pass.  The timer is looked at by select! only.
DeadlineExpire ==
    /\ InDiscovery
    /\ deadline = "armed"
    /\ deadline' = "expired"
    /\ UNCHANGED <<extVars, pc, result, exitCode, discoOpen, devConnected, devRecord, retries,
                   connectCalls, lastConnect, fcResult, attempts, gaveUp,
                   setupVars, slotVars, argVars, logVars>>

\* The events the discovery stream yields.
DiscoEvents == {"added_target", "added_other", "other"}

\* if let AdapterEvent::DeviceAdded(addr) = evt { if addr == self.address {
StartsAttempt(evt) == evt = "added_target"

\* select! arm Some(evt) = disco.next().  A device-added event for the target
\* address: adapter.device(addr)? and the call of find_characteristic.  Any
\* other event: the next turn of the loop.
DiscoEvent ==
    /\ pc = "select"
    /\ discoOpen
    /\ \E evt \in DiscoEvents :
         IF StartsAttempt(evt)
         THEN /\ attempts < MaxAttempts
              /\ attempts' = attempts + 1
              /\ devRecord' = TRUE
              /\ \E deviceOk \in BOOLEAN :
                   IF deviceOk
                   THEN /\ pc' = "fc_is_connected"
                        /\ result' = result
                   ELSE /\ pc' = "perform_returned"
                        /\ result' = "err_device"
         ELSE /\ UNCHANGED <<pc, result, attempts, devRecord>>
    /\ UNCHANGED <<extVars, exitCode, deadline, discoOpen, devConnected, retries,
                   connectCalls, lastConnect, fcResult, gaveUp,
                   setupVars, slotVars, argVars, logVars>>

\* disco.next() yields None: the pattern Some(evt) does not match, the arm is
\* disabled and select! goes on waiting for the timer.
DiscoEnd ==
    /\ pc = "select"
    /\ discoOpen
    /\ discoOpen' = FALSE
    /\ UNCHANGED <<extVars, pc, result, exitCode, deadline, devConnected, devRecord, retries,
                   connectCalls, lastConnect, fcResult, attempts, gaveUp,
                   setupVars, slotVars, argVars, logVars>>

\* select! arm _ = &mut timeout:
\* return Err("device, service or characteristic not found".into()).
Timeout ==
    /\ pc = "select"
    /\ deadline = "expired"
    /\ pc' = "perform_returned"
    /\ result' = "err_not_found"
    /\ UNCHANGED <<extVars, exitCode, discoVars, setupVars, slotVars, argVars, logVars>>

\* ------------------------------------- ConnectOpts::find_characteristic

\* let mut retries = 2
InitialRetries == 2

\* Mutant of RetryAllowed: the retry test is off by one.
RetryAllowedOnceMore(r) == r >= 0

\* Err(_) if retries > 0
RetryAllowed(r) == r > 0

\* if !device.is_connected().await? { let mut retries = 2; loop { ... } }
FcIsConnected ==
    /\ pc = "fc_is_connected"
    /\ \E ok \in BOOLEAN :
         IF ~ok
         THEN /\ fcResult' = "err_other"
              /\ pc' = "fc_return"
              /\ retries' = retries
         ELSE IF devConnected
         THEN /\ pc' = "fc_services"
              /\ UNCHANGED <<fcResult, retries>>
         ELSE /\ pc' = "fc_connect"
              /\ retries' = InitialRetries
              /\ fcResult' = fcResult
    /\ UNCHANGED <<extVars, result, exitCode, deadline, discoOpen, devConnected, devRecord,
                   connectCalls, lastConnect, attempts, gaveUp,
                   setupVars, slotVars, argVars, logVars>>

\* One turn of the retry loop: match device.connect().await { Ok(()) => break,
\* Err(_) if retries > 0 => retries -= 1, Err(err) => return Err(err.into()) }
FcConnect ==
    /\ pc = "fc_connect"
    /\ connectCalls' = connectCalls + 1
    /\ \E ok \in BOOLEAN :
         IF ok
         THEN /\ lastConnect' = "ok"
              /\ devConnected' = TRUE
              /\ pc' = "fc_services"
              /\ UNCHANGED <<retries, fcResult>>
         ELSE /\ lastConnect' = "err"
              /\ devConnected' = devConnected
              /\ IF RetryAllowed(retries)
                 THEN /\ retries' = retries - 1
                      /\ UNCHANGED <<pc, fcResult>>
                 ELSE /\ fcResult' = "err_connect"
                      /\ pc' = "fc_return"
                      /\ retries' = retries
    /\ UNCHANGED <<extVars, result, exitCode, deadline, discoOpen, devRecord, attempts, gaveUp,
                   setupVars, slotVars, argVars, logVars>>

\* What the search through device.services() can end with: the
\* characteristic, Ok(None), or the error of one of its calls.
SearchResults == {"some", "ok_none", "err_other"}

\* for service in device.services().await? { ... return Ok(Some(char)) } Ok(None)
FcServices ==
    /\ pc = "fc_services"
    /\ \E r \in SearchResults : fcResult' = r
    /\ pc' = "fc_return"
    /\ UNCHANGED <<extVars, result, exitCode, deadline, discoOpen, devConnected, devRecord,
                   retries, connectCalls, lastConnect, attempts, gaveUp,
                   setupVars, slotVars, argVars, logVars>>

\* Mutant of AfterAttempt: the connect error of find_characteristic is
\* propagated (find_characteristic(&dev).await? in place of the if let).
AfterAttemptPropagating(res) ==
    IF res = "some"
    THEN [pc |-> "caps", result |-> "none"]
    ELSE IF res = "err_connect"
    THEN [pc |-> "perform_returned", result |-> "err_connect"]
    ELSE [pc |-> "select", result |-> "none"]

\* if let Ok(Some(char)) = self.find_characteristic(&dev).await { break char; }
\* else { disconnect; remove_device }: where perform goes on, and with what
\* result, for each result of find_characteristic.
AfterAttempt(res) ==
    IF res = "some"
    THEN [pc |-> "caps", result |-> "none"]
    ELSE [pc |-> "select", result |-> "none"]

\* Mutant of HandleAttempt: after a failed attempt the device is left as it
\* is, neither disconnected nor removed.
HandleAttemptKeepsDevice ==
    /\ pc = "fc_return"
    /\ pc' = AfterAttempt(fcResult).pc
    /\ result' = AfterAttempt(fcResult).result
    /\ gaveUp' = (gaveUp \/ fcResult = "err_connect")
    /\ UNCHANGED <<devConnected, devRecord>>
    /\ retries' = 0 /\ connectCalls' = 0 /\ lastConnect' = "none" /\ fcResult' = "none"
    /\ UNCHANGED <<extVars, exitCode, deadline, discoOpen, attempts,
                   setupVars, slotVars, argVars, logVars>>

\* perform matches the result of find_characteristic.  On anything but the
\* characteristic: let _ = dev.disconnect().await;
\* let _ = adapter.remove_device(addr).await (either may fail, unnoticed).
HandleAttempt ==
    /\ pc = "fc_return"
    /\ pc' = AfterAttempt(fcResult).pc
    /\ result' = AfterAttempt(fcResult).result
    /\ gaveUp' = (gaveUp \/ fcResult = "err_connect")
    /\ IF AfterAttempt(fcResult).pc = "select"
       THEN \E disconnected \in BOOLEAN, removed \in BOOLEAN :
              /\ devConnected' = (devConnected /\ ~disconnected)
              /\ devRecord' = (devRecord /\ ~removed)
       ELSE UNCHANGED <<devConnected, devRecord>>
    /\ retries' = 0 /\ connectCalls' = 0 /\ lastConnect' = "none" /\ fcResult' = "none"
    /\ UNCHANGED <<extVars, exitCode, deadline, discoOpen, attempts,
                   setupVars, slotVars, argVars, logVars>>

\* ------------------------------------- negotiation, terminal, io_loop call

\* Mutant of NeitherSupported: the check asks for both streams.
EitherUnsupported(r, w) == IsNone(r) \/ IsNone(w)

\* if rh.is_none() && wh.is_none()
NeitherSupported(r, w) == IsNone(r) /\ IsNone(w)

\* let rh = char.notify_io().await.ok(); let wh = char.write_io().await.ok();
\* the capability check.
Negotiate ==
    /\ pc = "caps"
    /\ \E r \in Endpoints, w \in Endpoints :
         \E rm \in MtuOf(r), wm \in MtuOf(w) :
           /\ rh' = r /\ wh' = w /\ rhMtu' = rm /\ whMtu' = wm
           /\ IF NeitherSupported(r, w)
              THEN /\ pc' = "perform_returned"
                   /\ result' = "err_neither"
              ELSE /\ pc' = "tty"
                   /\ result' = result
    /\ UNCHANGED <<extVars, exitCode, discoVars, setupVars, pin, pout, is_std, rh_required,
                   pin_required, logVars>>

\* Mutant of ConnectFlags: local input is not required.
ConnectFlagsPinOptional(is_tty) ==
    [is_std |-> TRUE, rh_required |-> is_tty, pin_required |-> FALSE]

\* io_loop(rh, wh, tokio::io::stdin(), tokio::io::stdout(), true, is_tty, true):
\* the flags is_std, rh_required, pin_required.
ConnectFlags(is_tty) == [is_std |-> TRUE, rh_required |-> is_tty, pin_required |-> TRUE]

\* let is_tty = std::io::stdin().is_tty(); if is_tty && self.raw {
\* terminal::enable_raw_mode()?; }; then the call of io_loop, which starts with
\* let mut pin = Some(pin); let mut pout = Some(pout).
TtySetup ==
    /\ pc = "tty"
    /\ \E is_tty \in BOOLEAN, raw \in BOOLEAN, rawOk \in BOOLEAN :
         /\ (rawOk = FALSE) => (is_tty /\ raw)
         /\ IF is_tty /\ raw /\ ~rawOk
            THEN /\ pc' = "perform_returned"
                 /\ result' = "err_raw"
                 /\ UNCHANGED <<in_raw, ioEntered, pin, pout, is_std, rh_required,
                                pin_required>>
            ELSE /\ in_raw' = (is_tty /\ raw)
                 /\ ioEntered' = TRUE
                 /\ pin' = "Some" /\ pout' = "Some"
                 /\ is_std' = ConnectFlags(is_tty).is_std
                 /\ rh_required' = ConnectFlags(is_tty).rh_required
                 /\ pin_required' = ConnectFlags(is_tty).pin_required
                 /\ pc' = "loop"
                 /\ result' = result
    /\ UNCHANGED <<extVars, exitCode, discoVars, rh, wh, rhMtu, whMtu, logVars>>

\* io_loop(...).await?; if in_raw { terminal::disable_raw_mode()?; } Ok(())
PerformFinish ==
    /\ pc = "io_returned"
    /\ \E rawOk \in BOOLEAN :
         /\ (rawOk = FALSE) => in_raw
         /\ result' = IF rawOk THEN "ok" ELSE "err_raw"
    /\ pc' = "perform_returned"
    /\ UNCHANGED <<extVars, exitCode, discoVars, setupVars, slotVars, argVars, logVars>>

\* Mutant of ExitCodeOf: main exits with 2 whatever perform returned.
ExitCodeAlwaysFailure(res) == 2

\* main: match result { Ok(_) => exit(0), Err(err) => { ...; exit(2) } }
ExitCodeOf(res) == IF res = "ok" THEN 0 ELSE 2

MainExit ==
    /\ pc = "perform_returned"
    /\ exitCode' = ExitCodeOf(result)
    /\ pc' = "exited"
    /\ UNCHANGED <<extVars, result, discoVars, setupVars, slotVars, argVars, logVars>>

Next ==
    \/ Setup
    \/ DeadlineExpire
    \/ DiscoEvent
    \/ DiscoEnd
    \/ Timeout
    \/ FcIsConnected
    \/ FcConnect
    \/ FcServices
    \/ HandleAttempt
    \/ Negotiate
    \/ TtySetup
    \/ RemoteReadFail
    \/ RemoteReadData
    \/ LocalReadFail
    \/ LocalReadData
    \/ LoopExit
    \/ PerformFinish
    \/ MainExit

Spec == Init /\ [][Next]_vars

\* ------------------------------------------------- io_loop_serve (relay)

\* The process has not called exit.
Running == exitCode = -1

\* while !rh_closed || pin.is_some()
ServeLoopCondition == ~rh_closed \/ IsSome(pin)

\* Mutant of StopReaderClosed: a closed remote reader never ends the loop.
StopReaderClosedNever == FALSE

\* if rh_required && rh_closed { break; }
StopReaderClosed == rh_required /\ rh_closed

\* if pin_required && pin.is_none() { break; }
StopInputGone == pin_required /\ IsNone(pin)

\* Mutant of StopWriterClosed: a closed remote writer never ends the loop.
StopWriterClosedNever == FALSE

\* if wh_closed { break; }
StopWriterClosed == wh_closed

\* The three breaks at the top of the loop body.
ServeStopEarly == StopReaderClosed \/ StopInputGone \/ StopWriterClosed

\* The loop body is entered for another turn.
ServeLoopContinues == ServeLoopCondition /\ ~ServeStopEarly

\* let mtu = match (&rh, &wh) { (Some(rh), _) => rh.mtu(), (_, Some(wh)) => wh.mtu(), _ => 100 }
ServeMtu == IF IsSome(rh) THEN rhMtu ELSE IF IsSome(wh) THEN whMtu ELSE FallbackMtu

\* What the peer writes to the characteristic and what the child writes to
\* its standard output in one session: all bytes different.
PeerStream == [i \in 1..SessionLen |-> i]
ChildStream == [i \in 1..SessionLen |-> 10 + i]

\* rh.read_buf(&mut recv_buf), recv_buf = BytesMut::with_capacity(mtu).
ServeRemoteReadSizes == 1..Min(ServeMtu, SessionLen - RemotePos)

\* pin.read_buf(&mut pin_buf), pin_buf = BytesMut::with_capacity(mtu): local
\* input holds what the child (or the terminal) has written so far.
ServeLocalReadSizes == 1..Min(ServeMtu, childOut - LocalPos)

\* let wh_present = wh.is_some();
wh_present == IsSome(wh)

\* Mutant of LocalArmPolls: the local arm reads whether or not a remote
\* writer is present.
LocalArmPollsAlways == IsSome(pin)

\* Local arm: match pin.as_mut() { Some(pin) if wh_present => read_buf, _ => pending }
LocalArmPolls == IsSome(pin) /\ wh_present

\* A turn of io_loop_serve: the loop is entered and the process runs.
ServeTurn == pc = "serve_loop" /\ Running /\ ServeLoopContinues

\* Control arm, Some(Write(req)): rh = Some(req.accept()?).
ServeControlWrite ==
    /\ ServeTurn
    /\ ctlOpen /\ ctlEvents < MaxControl
    /\ ctlEvents' = ctlEvents + 1
    /\ lastTurn' = "control_write"
    /\ \E accepted \in BOOLEAN :
         IF accepted
         THEN /\ rh' = "Some"
              /\ \E m \in 1..MaxMtu : rhMtu' = m
              /\ UNCHANGED <<pc, ioResult>>
         ELSE /\ pc' = "serve_returned"
              /\ ioResult' = "err_accept"
              /\ UNCHANGED <<rh, rhMtu>>
    /\ UNCHANGED <<result, exitCode, discoVars, setupVars, wh, pin, pout, whMtu,
                   is_std, rh_required, pin_required, logVars, closedVars,
                   ctlOpen, cmdVars, sweepVars>>

\* Mutant of ServeControlNotify: taking the writer drops the remote reader.
ServeControlNotifyDropsReader ==
    /\ ServeTurn
    /\ ctlOpen /\ ctlEvents < MaxControl
    /\ ctlEvents' = ctlEvents + 1
    /\ lastTurn' = "control_notify"
    /\ wh' = "Some"
    /\ rh' = "None"
    /\ \E m \in 1..MaxMtu : whMtu' = m
    /\ UNCHANGED <<pc, result, exitCode, discoVars, setupVars, pin, pout, rhMtu,
                   is_std, rh_required, pin_required, logVars, closedVars,
                   ctlOpen, ioResult, cmdVars, sweepVars>>

\* Control arm, Some(Notify(notifier)): wh = Some(notifier).
ServeControlNotify ==
    /\ ServeTurn
    /\ ctlOpen /\ ctlEvents < MaxControl
    /\ ctlEvents' = ctlEvents + 1
    /\ lastTurn' = "control_notify"
    /\ wh' = "Some"
    /\ \E m \in 1..MaxMtu : whMtu' = m
    /\ UNCHANGED <<pc, result, exitCode, discoVars, setupVars, rh, pin, pout, rhMtu,
                   is_std, rh_required, pin_required, logVars, closedVars,
                   ctlOpen, ioResult, cmdVars, sweepVars>>

\* Control arm, None => break: the loop is left and Ok(()) returned.
ServeControlNone ==
    /\ ServeTurn
    /\ ctlOpen
    /\ ctlOpen' = FALSE
    /\ lastTurn' = "control_none"
    /\ pc' = "serve_returned"
    /\ ioResult' = "ok"
    /\ UNCHANGED <<result, exitCode, discoVars, setupVars, slotVars, argVars, logVars,
                   closedVars, ctlEvents, cmdVars, sweepVars>>

\* Remote arm, Ok(0) | Err(_): rh = None; rh_closed = true; pout = None;
\* close(STDOUT_FILENO) if is_std.
ServeRemoteReadFail ==
    /\ ServeTurn
    /\ IsSome(rh)
    /\ rh' = "None"
    /\ rh_closed' = TRUE
    /\ pout' = "None"
    /\ stdoutClosed' = (stdoutClosed \/ is_std)
    /\ rdLog' = Append(rdLog, <<>>)
    /\ lastTurn' = "remote_fail"
    /\ UNCHANGED <<pc, result, exitCode, discoVars, setupVars, wh, pin, argVars,
                   outLog, pinLog, whLog, outFailed, stdinClosed, fwdAtRhEof,
                   outAtPinEof,
                   wh_closed, ctlOpen, ctlEvents, ioResult, cmdVars, sweepVars>>

\* Remote arm, Ok(n): pout.as_mut().unwrap(), write_all and flush; on failure
\* rh = None; rh_closed = true.
ServeRemoteReadData ==
    /\ ServeTurn
    /\ IsSome(rh)
    /\ lastTurn' = "remote_data"
    /\ \E n \in ServeRemoteReadSizes :
         LET buf == Chunk(PeerStream, RemotePos, n) IN
         /\ rdLog' = Append(rdLog, buf)
         /\ IF IsNone(pout)
            THEN /\ pc' = "panicked"
                 /\ UNCHANGED <<rh, rh_closed, outLog, outFailed>>
            ELSE \E ok \in BOOLEAN :
                   \E delivered \in (IF ok THEN {n} ELSE 0..n) :
                     /\ outLog' = WriteOut(outLog, buf, delivered)
                     /\ rh' = IF ok THEN rh ELSE "None"
                     /\ rh_closed' = (rh_closed \/ ~ok)
                     /\ outFailed' = (outFailed \/ ~ok)
                     /\ pc' = pc
    /\ UNCHANGED <<result, exitCode, discoVars, setupVars, wh, pin, pout, argVars,
                   pinLog, whLog, stdoutClosed, stdinClosed, fwdAtRhEof, outAtPinEof,
                   wh_closed, ctlOpen, ctlEvents, ioResult, cmdVars, sweepVars>>

\* Local arm, Ok(0) | Err(_): wh = None; pin = None.
ServeLocalReadFail ==
    /\ ServeTurn
    /\ LocalArmPolls
    /\ wh' = "None"
    /\ pin' = "None"
    /\ pinLog' = Append(pinLog, <<>>)
    /\ lastTurn' = "local_fail"
    /\ UNCHANGED <<pc, result, exitCode, discoVars, setupVars, rh, pout, argVars,
                   rdLog, outLog, whLog, outFailed, stdoutClosed, stdinClosed,
                   fwdAtRhEof, outAtPinEof, closedVars, ctlOpen, ctlEvents, ioResult, cmdVars,
                   sweepVars>>

\* Local arm, Ok(n): wh.as_mut().unwrap().write_all(&pin_buf); on failure
\* wh = None; pin = None and close(STDIN_FILENO) if is_std.
ServeLocalReadData ==
    /\ ServeTurn
    /\ LocalArmPolls
    /\ lastTurn' = "local_data"
    /\ \E n \in ServeLocalReadSizes :
         LET buf == Chunk(ChildStream, LocalPos, n) IN
         /\ pinLog' = Append(pinLog, buf)
         /\ IF IsNone(wh)
            THEN /\ pc' = "panicked"
                 /\ UNCHANGED <<wh, pin, whLog, stdinClosed>>
            ELSE \E ok \in BOOLEAN :
                   /\ whLog' = WriteRemote(whLog, buf)
                   /\ wh' = IF ok THEN wh ELSE "None"
                   /\ pin' = IF ok THEN pin ELSE "None"
                   /\ stdinClosed' = (stdinClosed \/ (~ok /\ is_std))
                   /\ pc' = pc
    /\ UNCHANGED <<result, exitCode, discoVars, setupVars, rh, pout, argVars,
                   rdLog, outLog, outFailed, stdoutClosed, fwdAtRhEof, outAtPinEof,
                   closedVars, ctlOpen, ctlEvents, ioResult, cmdVars, sweepVars>>

\* Writer-closed arm: wh.closed().await; res.unwrap(); wh = None;
\* wh_closed = true.
ServeWriterClosed ==
    /\ ServeTurn
    /\ IsSome(wh)
    /\ lastTurn' = "writer_closed"
    /\ \E res \in {"Ok", "Err"} :
         IF res = "Ok"
         THEN /\ wh' = "None"
              /\ wh_closed' = TRUE
              /\ pc' = pc
         ELSE /\ pc' = "panicked"
              /\ UNCHANGED <<wh, wh_closed>>
    /\ UNCHANGED <<result, exitCode, discoVars, setupVars, rh, pin, pout, argVars,
                   logVars, rh_closed, ctlOpen, ctlEvents, ioResult, cmdVars,
                   sweepVars>>

\* The loop test fails or one of the three breaks at the top of the body is
\* taken: io_loop_serve returns Ok(()).
ServeLoopExit ==
    /\ pc = "serve_loop" /\ Running
    /\ ~ServeLoopContinues
    /\ pc' = "serve_returned"
    /\ ioResult' = "ok"
    /\ lastTurn' = "exit"
    /\ UNCHANGED <<result, exitCode, discoVars, setupVars, slotVars, argVars, logVars,
                   closedVars, ctlOpen, ctlEvents, cmdVars, sweepVars>>

\* One turn of io_loop_serve, or its return.
ServeLoopStep ==
    \/ ServeControlWrite
    \/ ServeControlNotify
    \/ ServeControlNone
    \/ ServeRemoteReadFail
    \/ ServeRemoteReadData
    \/ ServeLocalReadFail
    \/ ServeLocalReadData
    \/ ServeWriterClosed
    \/ ServeLoopExit

\* ------------------------------------- io_loop_serve with every argument

\* io_loop_serve(control, rh, wh, pin, pout, is_std, rh_required,
\* pin_required) at its first loop test: rh_closed = false; wh_closed = false;
\* pin = Some(pin); pout = Some(pout).
EnterIoLoopServe(r, w, rm, wm, std, rreq, preq) ==
    /\ rh = r /\ wh = w /\ rhMtu = rm /\ whMtu = wm
    /\ pin = "Some" /\ pout = "Some"
    /\ rh_closed = FALSE /\ wh_closed = FALSE
    /\ is_std = std /\ rh_required = rreq /\ pin_required = preq

\* The relay alone: every combination of endpoints (none at all, as the
\* listen command passes, among them) and of flags; local input holds all its
\* bytes from the start.
InitServeLoop ==
    /\ pc = "serve_loop" /\ result = "none" /\ exitCode = -1
    /\ IdleDisco
    /\ FreshLogs
    /\ IdleSweep
    /\ in_raw = FALSE /\ ioEntered = TRUE
    /\ ctlOpen = TRUE /\ ctlEvents = 0 /\ ioResult = "none" /\ lastTurn = "none"
    /\ one_shot = FALSE /\ pty = FALSE /\ sessions = 0 /\ spawned = 0
    /\ lastEnd = "none" /\ watching = FALSE
    /\ firstEvent = "none" /\ watched = "none"
    /\ childOut = SessionLen
    /\ \E r \in Endpoints, w \in Endpoints :
         \E rm \in MtuOf(r), wm \in MtuOf(w) :
           \E std \in BOOLEAN, rreq \in BOOLEAN, preq \in BOOLEAN :
             EnterIoLoopServe(r, w, rm, wm, std, rreq, preq)

NextServeLoop ==
    \/ ServeControlWrite
    \/ ServeControlNotify
    \/ ServeControlNone
    \/ ServeRemoteReadFail
    \/ ServeRemoteReadData
    \/ ServeLocalReadFail
    \/ ServeLocalReadData
    \/ ServeWriterClosed
    \/ ServeLoopExit

SpecServeLoop == InitServeLoop /\ [][NextServeLoop]_vars

\* ---------------------------------------------------- ServeOpts::perform

\* The command line of serve was parsed and perform is about to run.
InitServe ==
    /\ pc = "serve_start" /\ result = "none" /\ exitCode = -1
    /\ IdleDisco
    /\ NoRelayYet
    /\ FreshLogs
    /\ IdleSweep
    /\ rh_closed = FALSE /\ wh_closed = FALSE
    /\ ctlOpen = FALSE /\ ctlEvents = 0 /\ ioResult = "none" /\ lastTurn = "none"
    /\ one_shot \in BOOLEAN /\ pty \in BOOLEAN
    /\ sessions = 0 /\ spawned = 0 /\ lastEnd = "none" /\ childOut = 0
    /\ watching = FALSE /\ firstEvent = "none" /\ watched = "none"

\* get_session_adapter(bind)?, adapter.address()?, session.events()?, then
\* tokio::spawn of the watcher task.
ServeSetup ==
    /\ pc = "serve_start"
    /\ \E ok \in BOOLEAN :
         IF ok
         THEN /\ watching' = TRUE
              /\ pc' = "make_app"
              /\ UNCHANGED result
         ELSE /\ result' = "err_setup"
              /\ pc' = "perform_returned"
              /\ UNCHANGED watching
    /\ UNCHANGED <<exitCode, discoVars, setupVars, slotVars, argVars, logVars,
                   closedVars, ctlVars, one_shot, pty, sessions, spawned, lastEnd,
                   childOut, firstEvent, watched, sweepVars>>

\* The places where perform awaits, so that the watcher task can run.
AwaitPoints == {"make_app", "first_event", "serve_loop"}

\* Mutant of WatcherBreaks: the removal of any adapter ends the watcher loop.
WatcherBreaksOnAnyRemoval(evt) == evt \in {"removed_own", "removed_other", "end"}

\* Some(AdapterRemoved(name)) if name == adapter_name => break, None => break,
\* _ => ()
WatcherBreaks(evt) == evt \in {"removed_own", "end"}

\* The session events the watcher can be handed: the removal of the adapter
\* in use, the removal of another one (it stands for every event of the arm
\* _ => ()), the end of the stream.
SessionEvents == {"removed_own", "removed_other", "end"}

\* What a loop iteration of perform owns is dropped when the next begins.
DropSession ==
    /\ rh' = "None" /\ wh' = "None" /\ pin' = "None" /\ pout' = "None"
    /\ rhMtu' = 0 /\ whMtu' = 0
    /\ rh_closed' = FALSE /\ wh_closed' = FALSE
    /\ rdLog' = <<>> /\ outLog' = <<>> /\ pinLog' = <<>> /\ whLog' = <<>>
    /\ outFailed' = FALSE /\ fwdAtRhEof' = 0 /\ outAtPinEof' = 0
    /\ ctlEvents' = 0 /\ ioResult' = "none" /\ lastTurn' = "none"
    /\ childOut' = 0 /\ firstEvent' = "none"
    /\ UNCHANGED <<stdoutClosed, stdinClosed, is_std, rh_required, pin_required>>

\* One turn of the watcher's loop: an event that does not end the loop
\* changes nothing; after the loop, exit(3).  pc stays where perform was
\* waiting; what the process held is gone with it.
WatcherEvent ==
    /\ watching /\ Running
    /\ pc \in AwaitPoints
    /\ \E evt \in SessionEvents :
         IF WatcherBreaks(evt)
         THEN /\ watched' = evt
              /\ exitCode' = 3
              /\ DropSession
              /\ ctlOpen' = FALSE
         ELSE UNCHANGED <<watched, exitCode, slotVars, argVars, logVars,
                          closedVars, ctlVars, childOut, firstEvent>>
    /\ UNCHANGED <<pc, result, discoVars, setupVars, one_shot, pty, sessions,
                   spawned, lastEnd, watching, sweepVars>>

\* make_app(...).await?: the application is published with a new Control
\* Channel.
MakeApp ==
    /\ pc = "make_app" /\ Running
    /\ \E ok \in BOOLEAN :
         IF ok
         THEN /\ ctlOpen' = TRUE
              /\ pc' = "first_event"
              /\ UNCHANGED result
         ELSE /\ result' = "err_app"
              /\ pc' = "perform_returned"
              /\ UNCHANGED ctlOpen
    /\ UNCHANGED <<exitCode, discoVars, setupVars, slotVars, argVars, logVars,
                   closedVars, ctlEvents, ioResult, lastTurn, cmdVars, sweepVars>>

\* control.next(), Some(Write(req)): mtu = req.mtu(); rh = Some(req.accept()?).
ServeFirstWrite ==
    /\ pc = "first_event" /\ Running
    /\ ctlOpen /\ sessions < MaxSessions
    /\ \E accepted \in BOOLEAN :
         IF accepted
         THEN /\ rh' = "Some"
              /\ \E m \in 1..MaxMtu : rhMtu' = m
              /\ sessions' = sessions + 1
              /\ firstEvent' = "write"
              /\ pc' = "spawn"
              /\ UNCHANGED result
         ELSE /\ result' = "err_accept"
              /\ pc' = "perform_returned"
              /\ UNCHANGED <<rh, rhMtu, sessions, firstEvent>>
    /\ ctlEvents' = ctlEvents + 1
    /\ UNCHANGED <<exitCode, discoVars, setupVars, wh, pin, pout, whMtu, is_std,
                   rh_required, pin_required, logVars, closedVars, ctlOpen,
                   ioResult, lastTurn, one_shot, pty, spawned, lastEnd, childOut,
                   watching, watched, sweepVars>>

\* control.next(), Some(Notify(notifier)): mtu = notifier.mtu(); wh = Some(notifier).
ServeFirstNotify ==
    /\ pc = "first_event" /\ Running
    /\ ctlOpen /\ sessions < MaxSessions
    /\ wh' = "Some"
    /\ \E m \in 1..MaxMtu : whMtu' = m
    /\ sessions' = sessions + 1
    /\ firstEvent' = "notify"
    /\ ctlEvents' = ctlEvents + 1
    /\ pc' = "spawn"
    /\ UNCHANGED <<result, exitCode, discoVars, setupVars, rh, pin, pout, rhMtu,
                   is_std, rh_required, pin_required, logVars, closedVars, ctlOpen,
                   ioResult, lastTurn, one_shot, pty, spawned, lastEnd, childOut,
                   watching, watched, sweepVars>>

\* control.next(), None => break: perform returns Ok(()).
ServeFirstNone ==
    /\ pc = "first_event" /\ Running
    /\ ctlOpen
    /\ ctlOpen' = FALSE
    /\ result' = "ok"
    /\ pc' = "perform_returned"
    /\ UNCHANGED <<exitCode, discoVars, setupVars, slotVars, argVars, logVars,
                   closedVars, ctlEvents, ioResult, lastTurn, cmdVars, sweepVars>>

\* Mutant of AfterSpawnFailure: a child that cannot be spawned ends the
\* command.
AfterSpawnFailureFatal == "perform_returned"

\* Err(err) => { eprintln!("Cannot execute ..."); continue; }
AfterSpawnFailure == "make_app"

\* AsyncPtyMaster::open()? with --pty, then cmd.spawn_pty_async_raw or
\* cmd.spawn; on success io_loop_serve(&mut control, rh, wh, pin, pout, false,
\* true, false) is raced against the child.
SpawnChild ==
    /\ pc = "spawn" /\ Running
    /\ \E outcome \in {"spawned", "spawn_failed"} \cup (IF pty THEN {"no_pty"} ELSE {}) :
         CASE outcome = "no_pty" ->
                /\ result' = "err_pty"
                /\ pc' = "perform_returned"
                /\ UNCHANGED <<slotVars, argVars, logVars, closedVars, ctlVars,
                               spawned, lastEnd, childOut, firstEvent>>
           [] outcome = "spawn_failed" ->
                /\ lastEnd' = "spawn_failed"
                /\ pc' = AfterSpawnFailure
                /\ DropSession
                /\ UNCHANGED <<result, ctlOpen, spawned>>
           [] outcome = "spawned" ->
                /\ spawned' = spawned + 1
                /\ pin' = "Some" /\ pout' = "Some"
                /\ is_std' = FALSE /\ rh_required' = TRUE /\ pin_required' = FALSE
                /\ pc' = "serve_loop"
                /\ UNCHANGED <<result, rh, wh, rhMtu, whMtu, logVars, closedVars,
                               ctlVars, lastEnd, childOut, firstEvent>>
    /\ UNCHANGED <<exitCode, discoVars, setupVars, one_shot, pty, sessions,
                   watching, watched, sweepVars>>

\* The child writes its output to its standard output; the relay reads it in
\* chunks of any size its buffer allows.
ChildWrite ==
    /\ pc = "serve_loop" /\ Running
    /\ spawned > 0
    /\ childOut = 0
    /\ childOut' = SessionLen
    /\ UNCHANGED <<pc, result, exitCode, discoVars, setupVars, slotVars, argVars,
                   logVars, closedVars, ctlVars, one_shot, pty, sessions, spawned,
                   lastEnd, watching, firstEvent, watched, sweepVars>>

\* perform returns: the endpoints and the relay are dropped; what was
\* transferred stays on record.
DropRelay ==
    /\ rh' = "None" /\ wh' = "None" /\ pin' = "None" /\ pout' = "None"
    /\ rh_closed' = FALSE /\ wh_closed' = FALSE
    /\ ctlEvents' = 0 /\ ioResult' = "none" /\ lastTurn' = "none"

\* Mutant of AfterSession: the one-shot flag is not looked at.
AfterSessionAlwaysLoops == "make_app"

\* if self.one_shot { break; } at the end of the loop body.
AfterSession == IF one_shot THEN "perform_returned" ELSE "make_app"

\* The end of a loop iteration that ran a race: break with --one-shot (perform
\* returns Ok(())), the next iteration otherwise.
EndSession(how) ==
    /\ lastEnd' = how
    /\ pc' = AfterSession
    /\ IF AfterSession = "perform_returned"
       THEN /\ result' = "ok"
            /\ DropRelay
            /\ UNCHANGED <<argVars, logVars, childOut, firstEvent>>
       ELSE /\ DropSession
            /\ UNCHANGED result

\* select!, the arm of io_loop_serve: res?; the error of the relay is the
\* error of perform.
RelayWins ==
    /\ pc = "serve_returned" /\ Running
    /\ spawned > 0
    /\ IF ioResult = "ok"
       THEN EndSession("relay")
       ELSE /\ result' = ioResult
            /\ pc' = "perform_returned"
            /\ DropRelay
            /\ UNCHANGED <<argVars, logVars, lastEnd, childOut, firstEvent>>
    /\ UNCHANGED <<exitCode, discoVars, setupVars, ctlOpen, one_shot, pty,
                   sessions, spawned, watching, watched, sweepVars>>

\* select!, the arm of the child (child, child.wait()): the child has exited
\* and the relay is dropped where it stands.
ChildExit ==
    /\ pc = "serve_loop" /\ Running
    /\ spawned > 0
    /\ EndSession("child")
    /\ UNCHANGED <<exitCode, discoVars, setupVars, ctlOpen, one_shot, pty,
                   sessions, spawned, watching, watched, sweepVars>>

NextServe ==
    \/ ServeSetup
    \/ WatcherEvent
    \/ MakeApp
    \/ ServeFirstWrite
    \/ ServeFirstNotify
    \/ ServeFirstNone
    \/ SpawnChild
    \/ ChildWrite
    \/ ServeControlWrite
    \/ ServeControlNotify
    \/ ServeControlNone
    \/ ServeRemoteReadFail
    \/ ServeRemoteReadData
    \/ ServeLocalReadFail
    \/ ServeLocalReadData
    \/ ServeWriterClosed
    \/ ServeLoopExit
    \/ RelayWins
    \/ ChildExit
    \/ MainExit

SpecServe == InitServe /\ [][NextServe]_vars

\* --------------------------------------------------- DiscoverOpts::perform

\* The addresses of the devices that can show up.
Addrs == 1..NAddr

\* The command line of discover was parsed (self.address is the filter
\* given, empty for a scan) and perform is about to run.
InitDiscover ==
    /\ pc = "sweep_start" /\ result = "none" /\ exitCode = -1
    /\ IdleDisco
    /\ NoRelayYet
    /\ FreshLogs
    /\ IdleServe
    /\ addresses \in SUBSET Addrs
    /\ public_only \in BOOLEAN
    /\ done = {} /\ filter = FALSE /\ changes = {}
    /\ timeLeft = 0 /\ idle = 0 /\ elapsed = 0
    /\ handled = [a \in Addrs |-> 0]
    /\ lastEvent = "none"

\* get_session_adapter(bind)?, adapter.discover_devices()?, then
\* timeout = sleep(self.timeout), done = HashSet::new(),
\* filter = !addresses.is_empty().
SweepSetup ==
    /\ pc = "sweep_start"
    /\ \E ok \in BOOLEAN :
         IF ok
         THEN /\ filter' = (addresses # {})
              /\ timeLeft' = TimeoutTicks
              /\ pc' = "sweep"
              /\ UNCHANGED result
         ELSE /\ result' = "err_setup"
              /\ pc' = "perform_returned"
              /\ UNCHANGED <<filter, timeLeft>>
    /\ UNCHANGED <<exitCode, discoVars, setupVars, slotVars, argVars, logVars,
                   serveVars, addresses, done, public_only, changes, idle,
                   elapsed, handled, lastEvent>>

\* Mutant of FilterDone: the sweep never ends on the filter being used up.
FilterDoneNever == FALSE

\* if filter && addresses.is_empty() { break; }
FilterDone == filter /\ addresses = {}

\* The loop of the sweep is at its select!.
AtSelect == pc = "sweep" /\ ~FilterDone

\* The break at the top of the loop: perform returns Ok(()).
SweepFilterDone ==
    /\ pc = "sweep"
    /\ FilterDone
    /\ lastEvent' = "filter_done"
    /\ result' = "ok"
    /\ pc' = "perform_returned"
    /\ UNCHANGED <<exitCode, discoVars, setupVars, slotVars, argVars, logVars,
                   serveVars, addresses, done, filter, public_only, changes,
                   timeLeft, idle, elapsed, handled>>

\* The clock advances by one tick while the loop waits in its select!.
Tick ==
    /\ AtSelect
    /\ timeLeft > 0 /\ elapsed < MaxTicks
    /\ timeLeft' = timeLeft - 1
    /\ idle' = idle + 1
    /\ elapsed' = elapsed + 1
    /\ UNCHANGED <<pc, result, exitCode, discoVars, setupVars, slotVars, argVars,
                   logVars, serveVars, addresses, done, filter, public_only,
                   changes, handled, lastEvent>>

\* _ = &mut timeout => break
SweepTimeout ==
    /\ AtSelect
    /\ timeLeft = 0
    /\ lastEvent' = "timeout"
    /\ result' = "ok"
    /\ pc' = "perform_returned"
    /\ UNCHANGED <<exitCode, discoVars, setupVars, slotVars, argVars, logVars,
                   serveVars, addresses, done, filter, public_only, changes,
                   timeLeft, idle, elapsed, handled>>

\* discover.next() yields None => break
SweepStreamEnd ==
    /\ AtSelect
    /\ lastEvent' = "stream_end"
    /\ result' = "ok"
    /\ pc' = "perform_returned"
    /\ UNCHANGED <<exitCode, discoVars, setupVars, slotVars, argVars, logVars,
                   serveVars, addresses, done, filter, public_only, changes,
                   timeLeft, idle, elapsed, handled>>

\* discover.next() yields an event other than DeviceAdded, or changes.next()
\* one other than a change of the RSSI: _ => continue.
SweepOtherEvent ==
    /\ AtSelect
    /\ \E src \in {"adapter"} \cup (IF changes # {} THEN {"device"} ELSE {}) :
         lastEvent' = IF src = "adapter" THEN "adapter_other" ELSE "device_other"
    /\ UNCHANGED <<pc, result, exitCode, discoVars, setupVars, slotVars, argVars,
                   logVars, serveVars, addresses, done, filter, public_only,
                   changes, timeLeft, idle, elapsed, handled>>

\* A device-added or RSSI-changed event qualifies when its address passes
\* the filter, was not handled yet and is not excluded by --public-only.
Qualifies(addr, random) ==
    /\ filter => addr \in addresses
    /\ addr \notin done
    /\ ~(public_only /\ random)

\* Mutant of TimerAfter: the timeout is re-armed only after a device was
\* handled.
TimerAfterHandledOnly(path) == IF path = "handled" THEN TimeoutTicks ELSE timeLeft

\* timeout = sleep(self.timeout) at the end of the loop body, which the turns
\* that continue do not reach.
TimerAfter(path) == IF path \in {"handled", "watch"} THEN TimeoutTicks ELSE timeLeft

\* Mutant of Skipped: only the filter is consulted, not the set of handled
\* addresses.
SkippedByFilterOnly(addr) == filter /\ addr \notin addresses

\* if (filter && !addresses.contains(&addr)) || done.contains(&addr) { continue; }
Skipped(addr) == (filter /\ addr \notin addresses) \/ addr \in done

\* The loop body from line 208 on, for the address of the event: the path
\* it takes is "skipped" (outside the filter or done), "failed"
\* (adapter.device(addr)?), "random" (excluded by --public-only), "handled"
\* (RSSI available: handle_device, disconnect, addresses.remove, done.insert)
\* or "watch" (no RSSI: the device's events are added to changes).
Examine(addr) ==
    \E devOk \in BOOLEAN, random \in BOOLEAN, rssi \in BOOLEAN, evOk \in BOOLEAN :
      LET path ==
            IF Skipped(addr) THEN "skipped"
            ELSE IF ~devOk THEN "failed"
            ELSE IF public_only /\ random THEN "random"
            ELSE IF rssi THEN "handled"
            ELSE "watch"
      IN
      /\ lastEvent' = path
      /\ pc' = IF path = "failed" THEN "perform_returned" ELSE pc
      /\ result' = IF path = "failed" THEN "err_device" ELSE result
      /\ addresses' = IF path = "handled" THEN addresses \ {addr} ELSE addresses
      /\ done' = IF path = "handled" THEN done \cup {addr} ELSE done
      /\ handled' = IF path = "handled"
                    THEN [handled EXCEPT ![addr] = @ + 1] ELSE handled
      /\ changes' = IF path = "watch" /\ evOk THEN changes \cup {addr} ELSE changes
      /\ timeLeft' = TimerAfter(path)
      /\ idle' = IF Qualifies(addr, random) /\ path # "failed" THEN 0 ELSE idle

\* discover.next() yields Some(DeviceAdded(addr)).
SweepDeviceAdded ==
    /\ AtSelect
    /\ \E addr \in Addrs : Examine(addr)
    /\ UNCHANGED <<exitCode, discoVars, setupVars, slotVars, argVars, logVars,
                   serveVars, filter, public_only, elapsed>>

\* changes.next() yields Some((addr, PropertyChanged(Rssi(_)))).
SweepRssiChanged ==
    /\ AtSelect
    /\ \E addr \in changes : Examine(addr)
    /\ UNCHANGED <<exitCode, discoVars, setupVars, slotVars, argVars, logVars,
                   serveVars, filter, public_only, elapsed>>

NextDiscover ==
    \/ SweepSetup
    \/ SweepFilterDone
    \/ Tick
    \/ SweepTimeout
    \/ SweepStreamEnd
    \/ SweepOtherEvent
    \/ SweepDeviceAdded
    \/ SweepRssiChanged
    \/ MainExit

SpecDiscover == InitDiscover /\ [][NextDiscover]_vars

\* ================================================================ claims

\* A notify stream (remote reader) / a write stream (remote writer) was
\* obtained from the characteristic.
HadReader == rhMtu > 0
HadWriter == whMtu > 0

\* The bytes read from local input so far, in the order of the stream.
LocalRead == Chunk(LocalStream, 0, LocalPos)
\* The bytes read from the remote reader so far, in the order of the stream.
RemoteRead == Chunk(RemoteStream, 0, RemotePos)

\* ---------------------------------------------------------------- C1

\* C1 as stated: in the connect command, once a remote read has reported EOF
\* with local input still open, the relay keeps running (for a TTY and for a
\* non-TTY standard input alike) and what is read from local input is handed
\* to the remote writer.
C1_KeepsRunningAfterRemoteEof ==
    (pc = "loop" /\ RhEof /\ IsSome(pin)) =>
        (LoopContinues /\ Flatten(whLog) = LocalRead)

\* C1 amended: after the remote EOF with local input still open, the relay of
\* the connect command keeps running exactly when standard input is not a TTY
\* (rh_required = false); then every chunk read from local input is handed to
\* the remote writer, in order, when the characteristic yielded one.  With a
\* TTY (rh_required = true) the relay returns at the next loop test and
\* nothing is handed to the remote writer after the remote EOF.
C1_HalfCloseRemoteFirst ==
    /\ (pc = "loop" /\ RhEof /\ IsSome(pin)) => (LoopContinues <=> ~rh_required)
    /\ (RhEof /\ rh_required) => Len(Flatten(whLog)) = fwdAtRhEof
    /\ (RhEof /\ ~rh_required /\ HadWriter) => Flatten(whLog) = LocalRead

\* C1 witness: standard input is no TTY, the remote reader reported EOF, and
\* afterwards two chunks from local input were handed to the remote writer,
\* local input being still open.
C1_Witness ==
    /\ pc = "loop" /\ RhEof /\ ~rh_required /\ IsSome(pin) /\ LoopContinues
    /\ Len(whLog) >= 2
    /\ fwdAtRhEof = 0
    /\ Flatten(whLog) = LocalRead

\* ---------------------------------------------------------------- C2

\* C2 as stated: in the connect command, once a local read has reported EOF
\* with the remote reader still open, the relay keeps running.
C2_KeepsRunningAfterLocalEof ==
    (pc = "loop" /\ PinEof /\ IsSome(rh)) => LoopContinues

\* C2 amended: the connect command passes pin_required = true, so once a
\* local read has reported EOF the relay returns at the next loop test, also
\* with the remote reader still open: no remote read is made and nothing
\* reaches local output after the local EOF.
C2_HalfCloseLocalFirst ==
    /\ (pc = "loop" /\ PinEof) => ~LoopContinues
    /\ PinEof => /\ Len(outLog) = outAtPinEof
                 /\ pinLog[Len(pinLog)] = <<>>
                 /\ IsNone(wh) /\ IsNone(pin)

\* C2 witness: local input reported EOF while the remote reader was open and
\* the peer had bytes left to send, and io_loop has returned.
C2_Witness ==
    /\ pc = "io_returned" /\ PinEof /\ IsSome(rh)
    /\ RemotePos < RemoteLen
    /\ Len(outLog) > 0

\* ---------------------------------------------------------------- C3

\* C3: every read from the remote reader takes at most the reader's MTU, and
\* every buffer handed to the remote writer in one write holds at most the
\* writer's MTU, whatever the two MTUs are.
C3_MtuBound ==
    /\ \A i \in 1..Len(rdLog) : Len(rdLog[i]) <= rhMtu
    /\ \A i \in 1..Len(whLog) : Len(whLog[i]) <= whMtu

\* ---------------------------------------------------------------- C4

\* C4: io_loop comes to its return for every combination of endpoints and of
\* the required flags.  Both sources hold finitely many bytes and then report
\* EOF, so a run has finitely many turns: io_loop returns exactly when it
\* never stops short of its return, that is, when every state in which it has
\* not returned allows a further step (a turn whose select! has an arm that
\* can complete, or the loop exit).
C4_Returns == pc = "io_returned" \/ ENABLED NextIoLoop

\* ---------------------------------------------------------------- C5

\* C5: as long as no write or flush on local output failed, local output
\* holds exactly the bytes read from the remote reader, in the order the peer
\* sent them; once a remote read reported EOF, that read is the last remote
\* read (so nothing is written afterwards), the remote reader and the local
\* output slot are dropped and, on standard streams, standard output is
\* closed.
C5_RemoteToLocalIntegrity ==
    /\ ~outFailed => outLog = RemoteRead
    /\ RhEof => /\ ~outFailed
                /\ \A i \in 1..Len(rdLog) : (rdLog[i] = <<>>) <=> (i = Len(rdLog))
                /\ IsNone(rh) /\ IsNone(pout)
                /\ stdoutClosed = is_std
    /\ ~RhEof => ~stdoutClosed

\* C5 witness: the peer's bytes arrived in several chunks, then EOF; local
\* output holds all of them and standard output is closed.
C5_Witness ==
    /\ RhEof /\ Len(rdLog) >= 3
    /\ outLog = RemoteStream
    /\ is_std /\ stdoutClosed /\ IsNone(pout)

\* ---------------------------------------------------------------- C6

\* C6: io_loop never ends abnormally: it is in its loop or has returned
\* Ok(()), for every combination of endpoints that passes the capability
\* check and every outcome of the reads and writes.
C6_NeverAborts == pc \in {"loop", "io_returned"} /\ result = "none"

\* ---------------------------------------------------------------- C7

\* perform has returned (main may have exited already).
PerformOver == pc \in {"perform_returned", "exited"}

\* C7 as stated: the error "neither writing nor notify are supported" is
\* raised exactly when neither stream was obtained, io_loop not being entered;
\* and when at least one stream was obtained the relay is entered.
C7_RelayEnteredWithOneStream ==
    /\ result = "err_neither" => (~ioEntered /\ ~HadReader /\ ~HadWriter)
    /\ (PerformOver /\ (HadReader \/ HadWriter)) => ioEntered

\* C7 amended: the error "neither writing nor notify are supported" is raised
\* exactly when neither stream was obtained, and io_loop is then never
\* entered; with at least one stream obtained the absence of the other is no
\* error and the relay is entered, unless switching the terminal to raw mode
\* fails, which ends the command with that error before io_loop.
C7_CapabilityCheck ==
    /\ result = "err_neither" => (~ioEntered /\ ~HadReader /\ ~HadWriter)
    /\ ioEntered => (HadReader \/ HadWriter)
    /\ (HadReader \/ HadWriter) => result # "err_neither"
    /\ pc \in {"tty", "loop", "io_returned", "panicked"} => (HadReader \/ HadWriter)
    /\ (PerformOver /\ ~HadReader /\ ~HadWriter) =>
           result \in {"err_neither", "err_setup", "err_device", "err_not_found"}
    /\ (PerformOver /\ (HadReader \/ HadWriter)) => (ioEntered \/ result = "err_raw")

\* C7 witness: a characteristic that yielded the notify stream only, and
\* the relay running on it.
C7_Witness ==
    /\ pc = "loop" /\ ioEntered
    /\ HadReader /\ ~HadWriter
    /\ IsSome(rh) /\ IsNone(wh)

\* ---------------------------------------------------------------- C8

\* C8: in one call of find_characteristic on a device that is not connected,
\* at most 3 connect calls are made, one per turn of the retry loop; the
\* connect error is returned exactly after the third failure in a row; and
\* the loop is left at the first success, so no connect call follows one.
C8_RetryBudget ==
    /\ connectCalls <= 3
    /\ pc = "fc_connect" => /\ lastConnect # "ok"
                            /\ connectCalls < 3
                            /\ connectCalls + retries = 2
    /\ fcResult = "err_connect" => /\ pc = "fc_return"
                                   /\ connectCalls = 3
                                   /\ lastConnect = "err"
    /\ lastConnect = "ok" => pc \in {"fc_services", "fc_return"}
    /\ (pc = "fc_return" /\ lastConnect = "err") => fcResult = "err_connect"

\* C8 witness: find_characteristic returns the connect error, after 3 calls.
C8_Witness ==
    /\ pc = "fc_return" /\ fcResult = "err_connect"
    /\ connectCalls = 3 /\ retries = 0

\* ---------------------------------------------------------------- C9

\* The discovery loop was left with the characteristic (break char).
CharacteristicReturned ==
    \/ pc \in {"caps", "tty", "loop", "io_returned", "panicked"}
    \/ PerformOver /\ result \in {"ok", "err_neither", "err_raw"}

\* C9: the timer is armed once and never re-armed; no characteristic is
\* returned once it has expired: a search that has not returned the
\* characteristic when the timer expires ends with "device, service or
\* characteristic not found".  (The timer's state is that of the moment the
\* discovery loop was left: it is not polled afterwards.)
C9_AbsoluteDeadline ==
    /\ deadline = "unarmed" => pc \in {"start", "perform_returned", "exited"}
    /\ CharacteristicReturned => deadline = "armed"

\* --------------------------------------------------------------- C10

SessionEnded == lastEnd \in {"relay", "child"}

C12_SpawnFailureRecoverable ==
    /\ [][(pc = "spawn" /\ spawned' = spawned /\ result' = result) =>
             (/\ lastEnd' = "spawn_failed"
              /\ pc' = "make_app"
              /\ result' = "none" /\ exitCode' = -1
              /\ rdLog' = <<>> /\ pinLog' = <<>> /\ outLog' = <<>> /\ whLog' = <<>>
              /\ pin' = "None" /\ pout' = "None")]_vars
    /\ []((pc = "make_app" /\ Running) => ENABLED MakeApp)
    /\ []((pc = "first_event" /\ Running /\ ctlOpen /\ sessions < MaxSessions) =>
             (ENABLED ServeFirstWrite /\ ENABLED ServeFirstNotify))

\* C12 witness: with --pty the command could not be executed for the first
\* session, not a byte was relayed, and the server accepted the next session
\* and is relaying for it.
C12_Witness ==
    /\ pty /\ lastEnd = "spawn_failed"
    /\ sessions = 2 /\ spawned = 1
    /\ pc = "serve_loop" /\ Len(rdLog) > 0

\* --------------------------------------------------------------- C13

\* The session was opened by a WriteRequest and the peer subscribed later.
EchoSession == one_shot /\ firstEvent = "write" /\ whMtu > 0

\* What the child has written to its standard output.
ChildWrote == SubSeq(ChildStream, 1, childOut)

IsPrefix(a, b) == Len(a) <= Len(b) /\ a = SubSeq(b, 1, Len(a))

WatcherExit == WatcherEvent /\ exitCode' = 3

C15_FilteredSweepEndsEarly ==
    /\ [][(pc = "sweep" /\ filter /\ addresses = {}) =>
             (pc' = "perform_returned" /\ result' = "ok"
              /\ lastEvent' = "filter_done")]_vars
    /\ [](lastEvent = "filter_done" =>
             (filter /\ addresses = {} /\ done # {}
              /\ timeLeft = TimeoutTicks /\ idle = 0))
    /\ [][(pc = "sweep" /\ filter) =>
             (addresses' \cup done' = addresses \cup done)]_vars
    /\ [][addresses' # addresses =>
             (lastEvent' = "handled" /\ done' # done /\ addresses' \subseteq addresses)]_vars
    /\ [](addresses \cap done = {})
    /\ [](\A a \in Addrs : handled[a] > 0 <=> a \in done)
    /\ []((filter /\ pc = "sweep" /\ addresses # {}) => lastEvent # "filter_done")

\* C15 witness: both addresses of the filter were handled, ticks had passed
\* meanwhile, and the sweep ended on the filter with the whole timeout left.
C15_Witness ==
    /\ lastEvent = "filter_done" /\ PerformOver
    /\ done = Addrs /\ filter
    /\ elapsed > 0 /\ timeLeft = TimeoutTicks

\* --------------------------------------------------------------- C16

\* C16: while the sweep runs, the time left on its timeout is the full
\* duration less the ticks since the last qualifying event (since the start
\* when there was none): a qualifying event re-arms the timeout to the full
\* duration, any other event leaves it running; so the sweep ends by timeout
\* only after a full duration without a qualifying event.
C16_IdleTimeout ==
    /\ pc = "sweep" => timeLeft + idle = TimeoutTicks
    /\ lastEvent = "timeout" => (idle = TimeoutTicks /\ timeLeft = 0)
    /\ lastEvent \in {"handled", "watch"} /\ pc = "sweep" /\ idle = 0 =>
           timeLeft = TimeoutTicks

\* C16 witness: a device without RSSI was seen after a tick (the timeout was
\* re-armed), and the sweep ended by timeout later than one timeout duration
\* after its start.
C16_Witness ==
    /\ lastEvent = "timeout" /\ PerformOver
    /\ changes # {}
    /\ elapsed > TimeoutTicks

\* --------------------------------------------------------------- C17

\* C17: in io_loop_serve a read from local input is made only in a turn that
\* starts with a remote writer present, so while the writer is absent the
\* bytes waiting on local input stay there; every buffer read from local
\* input is handed to a remote writer (none is read and then dropped), and
\* the forward never finds the writer slot empty.
C17_LocalReadNeedsWriter ==
    /\ [][Len(pinLog') > Len(pinLog) => IsSome(wh)]_vars
    /\ [](Flatten(whLog) = Flatten(pinLog))
    /\ [](pc = "panicked" => lastTurn # "local_data")

\* Turns were made with no remote writer ever present (remote data was
\* relayed) while local input, held and with bytes waiting, was left alone.
C17_Witness ==
    /\ pc = "serve_loop"
    /\ Len(outLog) > 0
    /\ IsNone(wh) /\ whMtu = 0
    /\ IsSome(pin) /\ childOut > 0 /\ pinLog = <<>>

\* --------------------------------------------------------------- C18

\* C18: io_loop_serve does not return merely because the remote reader is
\* absent: when it leaves the loop by the loop test or a break, the reader
\* was closed or the writer was closed or a required local input is gone.
\* Every remote-read failure (EOF, read error, failed forward to local
\* output) sets rh_closed.  Once rh_closed is set with the reader required,
\* the only step left is the return: no control event is taken, no data is
\* read or written, and the reader slot stays empty.
C18_ReaderClosedIsTerminal ==
    /\ [][lastTurn' = "exit" => (rh_closed \/ wh_closed \/ StopInputGone)]_vars
    /\ []((RhEof \/ outFailed) => rh_closed)
    /\ []((rh_required /\ rh_closed) => IsNone(rh))
    /\ [][(pc = "serve_loop" /\ rh_required /\ rh_closed) =>
             (pc' = "serve_returned" /\ ioResult' = "ok"
              /\ UNCHANGED <<slotVars, logVars, closedVars, ctlOpen, ctlEvents>>)]_vars

\* The loop waited with no reader (a writer only was relaying), took a
\* WriteRequest, the reader then failed and, the reader being required, the
\* loop was left at the next turn although local input was still held and
\* the Control Channel had more to give.
C18_Witness ==
    /\ pc = "serve_returned" /\ lastTurn = "exit"
    /\ rh_required /\ rh_closed /\ ~wh_closed
    /\ Len(whLog) > 0 /\ RhEof
    /\ IsSome(pin) /\ ctlOpen /\ ctlEvents = 1

\* --------------------------------------------------------------- C19

\* C19: when wh.closed() reports the remote writer closed, the writer slot is
\* dropped and wh_closed is set; with wh_closed set the only step left is the
\* return of Ok(()), whatever the required flags, the remote reader and local
\* input are; and wh_closed is set by nothing else, in particular not when
\* the writer is dropped after a local EOF or a failed remote write.
C19_WriterClosedIsTerminal ==
    /\ [][(lastTurn' = "writer_closed" /\ pc' = "serve_loop") =>
             (wh' = "None" /\ wh_closed'
              /\ UNCHANGED <<rh, pin, pout, rh_closed, logVars>>)]_vars
    /\ [][(pc = "serve_loop" /\ wh_closed) =>
             (pc' = "serve_returned" /\ ioResult' = "ok"
              /\ UNCHANGED <<slotVars, logVars, closedVars, ctlOpen, ctlEvents>>)]_vars
    /\ [][wh_closed' # wh_closed => lastTurn' = "writer_closed"]_vars
    /\ []((PinEof \/ stdinClosed) /\ lastTurn \in {"local_fail", "local_data"}
            => ~wh_closed)

\* The writer was reported closed and the loop was left at the next turn with
\* neither flag asking for it: the remote reader was still held and relaying,
\* local input was still held.
C19_Witness ==
    /\ pc = "serve_returned" /\ lastTurn = "exit"
    /\ wh_closed /\ ~rh_closed
    /\ ~rh_required /\ ~pin_required
    /\ IsSome(rh) /\ IsSome(pin) /\ Len(outLog) > 0

\* --------------------------------------------------------------- C20

\* A step of io_loop_serve that took a control event of the given kind.
ControlTurn(kind) == ctlEvents' = ctlEvents + 1 /\ lastTurn' = kind

C21_ServeRelayNeverFails ==
    /\ pc \in {"serve_loop", "serve_returned"}
    /\ ioResult \in {"none", "ok"}

\* --------------------------------------------------------------- C22

\* A turn of io_loop whose remote read delivered data and whose forward to
\* local output (write_all or flush) failed.
RemoteForwardFailed == ~outFailed /\ outFailed'

\* A turn of io_loop whose local read delivered data and whose forward to the
\* remote writer (write_all) failed: the buffer was handed to the writer and
\* local input is no longer what it was.
LocalForwardFailed == Len(whLog') > Len(whLog) /\ pin' # pin

\* C22: in io_loop, a failed forward of remote data to local output drops
\* the remote reader only: local input, the remote writer and local output
\* stay as they were and no descriptor is closed.  A failed forward of local
\* data to the remote writer drops local input, closing standard input
\* exactly when is_std, and leaves the remote reader, the remote writer and
\* local output as they were.
C22_AsymmetricFailure ==
    /\ [][RemoteForwardFailed =>
             (/\ IsSome(rh) /\ rh' = "None"
              /\ pc' = "loop"
              /\ UNCHANGED <<pin, wh, pout, stdoutClosed, stdinClosed>>)]_vars
    /\ [][LocalForwardFailed =>
             (/\ IsSome(pin) /\ pin' = "None"
              /\ stdinClosed' = (stdinClosed \/ is_std)
              /\ pc' = "loop"
              /\ UNCHANGED <<rh, wh, pout, stdoutClosed, outFailed>>)]_vars

\* Both forwards have failed in one run on standard streams, neither side
\* having reported a failed read: both readers are dropped, the remote
\* writer and local output are still held, standard input is closed and
\* standard output is not.
C22_Witness ==
    /\ pc = "loop" /\ is_std
    /\ outFailed /\ ~RhEof /\ ~PinEof
    /\ IsNone(rh) /\ IsNone(pin) /\ IsSome(wh) /\ IsSome(pout)
    /\ stdinClosed /\ ~stdoutClosed

\* --------------------------------------------------------------- C23

\* find_characteristic has returned anything but the characteristic: the
\* connect error, another error, or Ok(None).
FailedAttempt == pc = "fc_return" /\ fcResult # "some"

\* The step in which perform handles that result.
FailedAttemptHandled == FailedAttempt /\ pc' # pc

\* C23 as stated: after every attempt that does not yield the characteristic
\* the device is disconnected and its record removed before the next event
\* is taken, the command does not fail and the scan continues.
C23_DeviceReturnedToPool ==
    [][FailedAttemptHandled =>
         (/\ pc' = "select" /\ result' = "none"
          /\ ~devConnected' /\ ~devRecord'
          /\ UNCHANGED <<deadline, discoOpen>>)]_vars

\* C23 amended: after every attempt that does not yield the characteristic
\* perform asks for the device to be disconnected and for its record to be
\* removed and ignores the outcome of both calls: the device is disconnected
\* and removed when they succeed and is otherwise left as it was, never
\* connected or recorded anew.  The command does not fail, the timer and the
\* discovery stream are left alone, and the loop is back in select!, where
\* a later device-added event for the target starts another attempt.
C23_FailedAttemptDiscarded ==
    /\ [][FailedAttemptHandled =>
             (/\ pc' = "select" /\ result' = "none"
              /\ (devConnected' => devConnected)
              /\ (devRecord' => devRecord)
              /\ UNCHANGED <<deadline, discoOpen, attempts>>)]_vars
    /\ [](FailedAttempt =>
             ENABLED (HandleAttempt /\ ~devConnected' /\ ~devRecord'))
    /\ []((pc = "select" /\ discoOpen /\ attempts < MaxAttempts) =>
             ENABLED (DiscoEvent /\ pc' = "fc_is_connected"))

\* A second attempt on the target, made after the first had given up on a
\* connect error and before the deadline, has returned the characteristic.
C23_Witness ==
    /\ pc = "caps" /\ gaveUp /\ attempts >= 2
    /\ deadline = "armed"

\* --------------------------------------------------------------- C24

\* C24 as stated: in io_loop as entered from the connect command, for every
\* pair of endpoints that passes the capability check, no turn of the loop
\* is reached with local input present and holding bytes to read while the
\* remote writer slot is empty, and so no local read with data fails to find
\* its writer (the unwrap of the local arm never panics).
C24_LocalDataFindsWriter ==
    /\ (pc = "loop" /\ LoopContinues /\ IsSome(pin) /\ LocalPos < LocalLen)
           => IsSome(wh)
    /\ pc # "panicked"

\* --------------------------------------------------------------- C25

C26_HandledAtMostOnce ==
    /\ [](/\ \A a \in Addrs : handled[a] <= 1
          /\ done = {a \in Addrs : handled[a] = 1}
          /\ addresses \cap done = {})
    /\ [][done \subseteq done' /\ addresses' \subseteq addresses]_vars

\* Without a filter, every address has been handled and a further event
\* for one of them has just been skipped.
C26_Witness ==
    /\ pc = "sweep" /\ ~filter
    /\ done = Addrs /\ lastEvent = "skipped"

============================================================================
